---- MODULE Spec2Model ----
(***************************************************************************)
(* Model of src/src/vector_store.py: the QdrantVectorStore adapter and the *)
(* part of the Qdrant service it talks to (collections, payload indexes,   *)
(* points).  Every public method is one action; the service's reply to     *)
(* each client call (success, fault, "already exists", the ranking of a    *)
(* query) is an input of the action.                                       *)
(***************************************************************************)
EXTENDS Integers, Sequences, FiniteSets, TLC

\* ---- bounds of the model
MaxIds == 2        \* identifiers uuid4 hands out in one behaviour
MaxDocs == 2       \* longest documents / embeddings list of one add_documents call
MaxK == 2          \* largest k of a similarity_search call

\* ---- program constants
vector_size == 768
ScrollLimit == 1000

collection_name == "rag_documents"
OtherCollection == "other_collection"

\* Python's None, as a payload or metadata value
None == "None"

Min(a, b) == IF a <= b THEN a ELSE b

\* ---- inputs ------------------------------------------------------------

\* Embeddings: [] (empty, skipped) and two orthogonal unit vectors.
Vectors == {<<1, 0>>, <<0, 1>>}
Embeddings == {<<>>} \cup Vectors

\* langchain Documents: page_content plus a metadata mapping (a function
\* whose domain is the set of keys present).
DocA == [page_content |-> "a",
         metadata |-> [source_type |-> "chat", session_id |-> "s1"]]
DocB == [page_content |-> "b",
         metadata |-> [source_type |-> "pdf", source_name |-> "n2",
                       session_id |-> "s2", chunk_id |-> 7]]
Documents == {DocA, DocB}

\* The (document, embedding) pairs a caller passes: a document with the
\* vector the embedding provider computed for it, or with an empty embedding.
Pairs == {[doc |-> DocA, embedding |-> <<1, 0>>],
          [doc |-> DocA, embedding |-> <<>>],
          [doc |-> DocB, embedding |-> <<0, 1>>]}

Sessions == {"s1", "s2"}

SeqsUpTo(S, n) == UNION {[1..m -> S] : m \in 0..n}

Batches == SeqsUpTo(Pairs, MaxDocs)

\* filter_dict values: None / {} (both falsy, both the empty mapping here),
\* one key, two keys.
FilterDicts ==
    {<<>>,
     [session_id |-> "s1"],
     [session_id |-> "s2", source_type |-> "chat"],
     [session_id |-> "s2", source_type |-> "pdf"]}

Ks == 1..MaxK

\* Outcome of a service call that writes: it completes, it fails with
\* nothing written, or the write is applied and the call still fails
\* (the reply is lost).
WriteOutcomes == {"ok", "fail", "fail_after"}
\* Reply to create_payload_index.
IndexReplies == {"ok", "already exists", "error"}

VARIABLES
    collections,   \* service: collection name -> configured vector size
    indexes,       \* service: payload fields with a keyword index
    points,        \* service: point id -> [vector, payload] of the collection
    nextId,        \* identifiers 1..nextId-1 have been generated by uuid4
    adapter,       \* TRUE once a QdrantVectorStore instance has been obtained
    op,            \* the method called last
    arg,           \* its arguments and the service's replies
    calls,         \* the client calls it issued, in order
    req,           \* what it sent with its data call (points, filter)
    resp,          \* the points the service returned to it
    ret,           \* its return value
    raised,        \* TRUE iff it raised to the caller
    cleared        \* sessions deleted with True and no add_documents since

vars == <<collections, indexes, points, nextId, adapter, op, arg, calls, req,
          resp, ret, raised, cleared>>

Get(m, key, default) == IF key \in DOMAIN m THEN m[key] ELSE default

\* ---- the service --------------------------------------------------------

\* A Filter(must=conditions): every condition's key is in the payload with
\* exactly the condition's value.
FilterMatch(payload, must) ==
    \A c \in must : c.key \in DOMAIN payload /\ payload[c.key] = c.value

Matching(pts, must) == {id \in DOMAIN pts : FilterMatch(pts[id].payload, must)}

\* Cosine similarity of unit vectors.
Score(q, v) == q[1] * v[1] + q[2] * v[2]

RECURSIVE PermsOf(_)
PermsOf(S) ==
    IF S = {} THEN {<<>>}
    ELSE UNION {{<<x>> \o p : p \in PermsOf(S \ {x})} : x \in S}

Prefix(s, n) == [i \in 1..Min(n, Len(s)) |-> s[i]]

\* query_points: the limit nearest points among those the filter admits,
\* best first; ties in any order.
QueryPoints(pts, q, must, limit) ==
    LET m == Matching(pts, must)
        ranked == {p \in PermsOf(m) :
                     \A i \in 1..(Len(p) - 1) :
                        Score(q, pts[p[i]].vector) >= Score(q, pts[p[i + 1]].vector)}
    IN {[i \in 1..Min(limit, Len(p)) |->
            [id |-> p[i], score |-> Score(q, pts[p[i]].vector),
             payload |-> pts[p[i]].payload]] : p \in ranked}

RECURSIVE SortedIds(_)
SortedIds(S) ==
    IF S = {} THEN <<>>
    ELSE LET x == CHOOSE y \in S : \A z \in S : y <= z
         IN <<x>> \o SortedIds(S \ {x})

\* scroll: up to limit points the filter admits, by id.
Scroll(pts, must, limit) ==
    LET ids == Prefix(SortedIds(Matching(pts, must)), limit)
    IN [i \in 1..Len(ids) |-> [id |-> ids[i], payload |-> pts[ids[i]].payload]]

\* upsert: a point replaces the stored point of the same id.
Upsert(pts, new) ==
    LET newIds == {new[i].id : i \in 1..Len(new)}
        last(id) == CHOOSE i \in 1..Len(new) :
                       new[i].id = id /\ \A j \in (i + 1)..Len(new) : new[j].id # id
    IN [id \in DOMAIN pts \cup newIds |->
          IF id \in newIds
          THEN [vector |-> new[last(id)].vector, payload |-> new[last(id)].payload]
          ELSE pts[id]]

\* delete with a filter selector.
Delete(pts, must) ==
    [id \in DOMAIN pts \ Matching(pts, must) |-> pts[id]]

\* ---- the adapter: pure parts -------------------------------------------

\* Variant: an identifier that does not depend on what was generated before.
uuid4_fixed(next) == 1

\* uuid.uuid4(): an identifier never generated before (next is the count of
\* identifiers generated so far, plus one).
uuid4(next) == next

\* Variant: create_collection is issued on every setup.
NeedsCreate_always(names) == TRUE

\* line 46: create only when the name is not among the listed collections
NeedsCreate(names) == collection_name \notin names

\* create_collection of the service: a name already present is a conflict.
CreateCollection(colls) ==
    [n \in DOMAIN colls \cup {collection_name} |->
        IF n = collection_name THEN vector_size ELSE colls[n]]

\* lines 64-66 and 76-78: what an exception of create_payload_index does to
\* setup; the message decides only whether it is printed.
IndexErrorRaises(reply) == FALSE

\* _ensure_collection_exists.  listOk: get_collections answers; createOut:
\* outcome of create_collection; r1, r2: replies to the two
\* create_payload_index calls.
ensure_collection_exists(colls, idx, listOk, createOut, r1, r2) ==
    IF ~listOk
    THEN [raised |-> TRUE, calls |-> <<"get_collections">>,
          collections |-> colls, indexes |-> idx]
    ELSE
      LET create == NeedsCreate(DOMAIN colls)
          conflict == collection_name \in DOMAIN colls
          createOk == createOut = "ok" /\ ~conflict
          colls2 == IF create /\ ~conflict /\ createOut \in {"ok", "fail_after"}
                    THEN CreateCollection(colls) ELSE colls
          callsC == <<"get_collections">>
                    \o (IF create THEN <<"create_collection">> ELSE <<>>)
      IN IF create /\ ~createOk
         THEN [raised |-> TRUE, calls |-> callsC,
               collections |-> colls2, indexes |-> idx]
         ELSE
           LET idx1 == IF r1 = "ok" THEN idx \cup {"session_id"} ELSE idx
               calls1 == callsC \o <<"create_payload_index">>
           IN IF r1 # "ok" /\ IndexErrorRaises(r1)
              THEN [raised |-> TRUE, calls |-> calls1,
                    collections |-> colls2, indexes |-> idx1]
              ELSE
                LET idx2 == IF r2 = "ok" THEN idx1 \cup {"source_type"} ELSE idx1
                    calls2 == calls1 \o <<"create_payload_index">>
                IN [raised |-> r2 # "ok" /\ IndexErrorRaises(r2),
                    calls |-> calls2,
                    collections |-> colls2, indexes |-> idx2]

\* lines 93-103: the point built from pair i (0-based) of the call
PointStruct(id, embedding, doc, i) ==
    [id |-> id,
     vector |-> embedding,
     payload |-> [content |-> doc.page_content,
                  source_type |-> Get(doc.metadata, "source_type", None),
                  source_name |-> Get(doc.metadata, "source_name", None),
                  session_id |-> Get(doc.metadata, "session_id", None),
                  chunk_id |-> Get(doc.metadata, "chunk_id", i)]]

\* lines 87-104: enumerate(zip(documents, embeddings)), skipping the pairs
\* whose embedding is empty; i is the 1-based position.
RECURSIVE build_points(_, _, _, _)
build_points(documents, embeddings, i, next) ==
    IF i > Min(Len(documents), Len(embeddings)) THEN <<>>
    ELSE IF embeddings[i] = <<>>
         THEN build_points(documents, embeddings, i + 1, next)
         ELSE <<PointStruct(uuid4(next), embeddings[i], documents[i], i - 1)>>
              \o build_points(documents, embeddings, i + 1, next + 1)

\* Variant: the check for an empty batch is missing.
NoValidPoints_never(pts) == FALSE

\* line 106: `if not points`
NoValidPoints(pts) == pts = <<>>

\* add_documents.  out: the outcome of the upsert call.
add_documents(documents, embeddings, stored, next, out) ==
    LET new == build_points(documents, embeddings, 1, next)
    IN IF NoValidPoints(new)
       THEN [ret |-> FALSE, raised |-> FALSE, calls |-> <<>>, req |-> <<>>,
             points |-> stored]
       ELSE [ret |-> out = "ok", raised |-> FALSE, calls |-> <<"upsert">>,
             req |-> new,
             points |-> IF out \in {"ok", "fail_after"}
                        THEN Upsert(stored, new) ELSE stored]

\* Variant: the filter_dict is not passed on.
query_filter_dropped(filter_dict) == {}

\* lines 134-144: the query filter of a filter_dict (None when it is falsy;
\* a Filter with no condition admits every point, as None does)
query_filter(filter_dict) ==
    IF DOMAIN filter_dict = {} THEN {}
    ELSE {[key |-> k, value |-> filter_dict[k]] : k \in DOMAIN filter_dict}

\* lines 157-166: the Document of one returned point
ToDocument(result) ==
    [page_content |-> result.payload["content"],
     metadata |-> [source_type |-> Get(result.payload, "source_type", None),
                   source_name |-> Get(result.payload, "source_name", None),
                   session_id |-> Get(result.payload, "session_id", None),
                   chunk_id |-> Get(result.payload, "chunk_id", None),
                   score |-> result.score]]

\* Variant: the Documents are returned in the reverse order.
ToDocuments_reversed(results) ==
    [i \in 1..Len(results) |-> ToDocument(results[Len(results) + 1 - i])]

\* lines 154-169: one Document per returned point, in the returned order
ToDocuments(results) == [i \in 1..Len(results) |-> ToDocument(results[i])]

\* Variant: the fast path for an empty query is missing.
EmptyQuery_never(query_embedding) == FALSE

\* lines 131-132: `if not query_embedding`
EmptyQuery(query_embedding) == query_embedding = <<>>

\* similarity_search.  ok: query_points answers; results: its points.
similarity_search(query_embedding, k, filter_dict, ok, results) ==
    IF EmptyQuery(query_embedding)
    THEN [ret |-> <<>>, raised |-> FALSE, calls |-> <<>>, req |-> <<>>,
          resp |-> <<>>]
    ELSE IF ~ok
    THEN [ret |-> <<>>, raised |-> FALSE, calls |-> <<"query_points">>,
          req |-> query_filter(filter_dict), resp |-> <<>>]
    ELSE IF \E i \in 1..Len(results) : "content" \notin DOMAIN results[i].payload
    THEN [ret |-> <<>>, raised |-> FALSE, calls |-> <<"query_points">>,
          req |-> query_filter(filter_dict), resp |-> results]
    ELSE [ret |-> ToDocuments(results), raised |-> FALSE,
          calls |-> <<"query_points">>,
          req |-> query_filter(filter_dict), resp |-> results]

\* lines 180-187: the scroll filter of a session
scroll_filter(session_id) == {[key |-> "session_id", value |-> session_id]}

\* lines 194-200: the record of one scrolled point
ToRecord(p) ==
    [id |-> p.id,
     content |-> Get(p.payload, "content", None),
     source_type |-> Get(p.payload, "source_type", None),
     source_name |-> Get(p.payload, "source_name", None),
     chunk_id |-> Get(p.payload, "chunk_id", None)]

\* get_documents_by_session.  ok: scroll answers; scrolled: its points.
get_documents_by_session(session_id, ok, scrolled) ==
    IF ~ok
    THEN [ret |-> <<>>, raised |-> FALSE, calls |-> <<"scroll">>,
          req |-> scroll_filter(session_id), resp |-> <<>>]
    ELSE [ret |-> [i \in 1..Len(scrolled) |-> ToRecord(scrolled[i])],
          raised |-> FALSE, calls |-> <<"scroll">>,
          req |-> scroll_filter(session_id), resp |-> scrolled]

\* Variant: a selector with no condition.
points_selector_all(session_id) == {}

\* lines 214-221: the selector of the points of a session
points_selector(session_id) == {[key |-> "session_id", value |-> session_id]}

\* Variant: True is returned whatever the delete call did.
delete_by_session_true(session_id, stored, out) ==
    [ret |-> TRUE, raised |-> FALSE, calls |-> <<"delete">>,
     req |-> points_selector(session_id),
     points |-> IF out \in {"ok", "fail_after"}
                THEN Delete(stored, points_selector(session_id)) ELSE stored]

\* delete_by_session.  out: the outcome of the delete call.
delete_by_session(session_id, stored, out) ==
    [ret |-> out = "ok", raised |-> FALSE, calls |-> <<"delete">>,
     req |-> points_selector(session_id),
     points |-> IF out \in {"ok", "fail_after"}
                THEN Delete(stored, points_selector(session_id)) ELSE stored]

\* Variant: no handler around the get_collection call.
get_collection_info_unhandled(ok, colls, stored) ==
    IF ~ok
    THEN [ret |-> <<>>, raised |-> TRUE, calls |-> <<"get_collection">>]
    ELSE [ret |-> [name |-> collection_name,
                   vector_size |-> colls[collection_name],
                   points_count |-> Cardinality(DOMAIN stored)],
          raised |-> FALSE, calls |-> <<"get_collection">>]

\* get_collection_info.  ok: get_collection answers.
get_collection_info(ok, colls, stored) ==
    IF ~ok
    THEN [ret |-> <<>>, raised |-> FALSE, calls |-> <<"get_collection">>]
    ELSE [ret |-> [name |-> collection_name,
                   vector_size |-> colls[collection_name],
                   points_count |-> Cardinality(DOMAIN stored)],
          raised |-> FALSE, calls |-> <<"get_collection">>]

\* ---- the state machine --------------------------------------------------

\* The last call, before any call.
NoCall ==
    /\ op = "none"
    /\ arg = <<>>
    /\ calls = <<>>
    /\ req = <<>>
    /\ resp = <<>>
    /\ ret = <<>>
    /\ raised = FALSE
    /\ cleared = {}

\* Setup: a backing store no adapter has been constructed against yet.
SetupInit ==
    /\ collections \in {<<>>, [n \in {OtherCollection} |-> vector_size]}
    /\ indexes = {}
    /\ points = <<>>
    /\ nextId = 1
    /\ adapter = FALSE
    /\ NoCall

\* The methods: the state after a construction that returned (lines 24-38),
\* the collection created and empty.
Init ==
    /\ collections = CreateCollection(<<>>)
    /\ indexes = {"session_id", "source_type"}
    /\ points = <<>>
    /\ nextId = 1
    /\ adapter = TRUE
    /\ NoCall

\* QdrantVectorStore(): __init__ runs _ensure_collection_exists; an instance
\* is obtained iff it does not raise.
Construct ==
    \E listOk \in BOOLEAN, createOut \in WriteOutcomes, r1, r2 \in IndexReplies :
      /\ r1 = "already exists" => "session_id" \in indexes
      /\ r2 = "already exists" => "source_type" \in indexes
      /\ LET e == ensure_collection_exists(collections, indexes, listOk,
                                           createOut, r1, r2)
         IN /\ collections' = e.collections
            /\ indexes' = e.indexes
            /\ adapter' = (adapter \/ ~e.raised)
            /\ op' = "init"
            /\ arg' = [listOk |-> listOk, createOut |-> createOut,
                       r1 |-> r1, r2 |-> r2]
            /\ calls' = e.calls
            /\ raised' = e.raised
            /\ ret' = ~e.raised
            /\ req' = <<>>
            /\ resp' = <<>>
      /\ UNCHANGED <<points, nextId, cleared>>

Valid(embeddings, n) == {i \in 1..n : embeddings[i] # <<>>}

AddDocuments ==
    \E pairs \in Batches, out \in WriteOutcomes :
     LET documents == [i \in 1..Len(pairs) |-> pairs[i].doc]
         embeddings == [i \in 1..Len(pairs) |-> pairs[i].embedding]
     IN
      /\ adapter
      /\ nextId - 1 + Cardinality(Valid(embeddings,
               Min(Len(documents), Len(embeddings)))) <= MaxIds
      /\ LET r == add_documents(documents, embeddings, points, nextId, out)
         IN /\ points' = r.points
            /\ nextId' = nextId + Len(build_points(documents, embeddings, 1, nextId))
            /\ op' = "add_documents"
            /\ arg' = [documents |-> documents, embeddings |-> embeddings,
                       out |-> out]
            /\ calls' = r.calls
            /\ req' = r.req
            /\ resp' = <<>>
            /\ ret' = r.ret
            /\ raised' = r.raised
      /\ cleared' = {}
      /\ UNCHANGED <<collections, indexes, adapter>>

SimilaritySearch ==
    \E q \in Embeddings, k \in Ks, filter_dict \in FilterDicts, ok \in BOOLEAN :
      /\ adapter
      /\ \E results \in (IF q = <<>> \/ ~ok THEN {<<>>}
                         ELSE QueryPoints(points, q, query_filter(filter_dict), k)) :
           LET r == similarity_search(q, k, filter_dict, ok, results)
           IN /\ op' = "similarity_search"
              /\ arg' = [query_embedding |-> q, k |-> k,
                         filter_dict |-> filter_dict, ok |-> ok]
              /\ calls' = r.calls
              /\ req' = r.req
              /\ resp' = r.resp
              /\ ret' = r.ret
              /\ raised' = r.raised
      /\ UNCHANGED <<collections, indexes, points, nextId, adapter, cleared>>

GetDocumentsBySession ==
    \E session_id \in Sessions, ok \in BOOLEAN :
      /\ adapter
      /\ LET r == get_documents_by_session(session_id, ok,
                     Scroll(points, scroll_filter(session_id), ScrollLimit))
         IN /\ op' = "get_documents_by_session"
            /\ arg' = [session_id |-> session_id, ok |-> ok]
            /\ calls' = r.calls
            /\ req' = r.req
            /\ resp' = r.resp
            /\ ret' = r.ret
            /\ raised' = r.raised
      /\ UNCHANGED <<collections, indexes, points, nextId, adapter, cleared>>

DeleteBySession ==
    \E session_id \in Sessions, out \in WriteOutcomes :
      /\ adapter
      /\ LET r == delete_by_session(session_id, points, out)
         IN /\ points' = r.points
            /\ op' = "delete_by_session"
            /\ arg' = [session_id |-> session_id, out |-> out]
            /\ calls' = r.calls
            /\ req' = r.req
            /\ resp' = <<>>
            /\ ret' = r.ret
            /\ raised' = r.raised
            /\ cleared' = IF r.ret = TRUE THEN cleared \cup {session_id} ELSE cleared
      /\ UNCHANGED <<collections, indexes, nextId, adapter>>

GetCollectionInfo ==
    \E ok \in BOOLEAN :
      /\ adapter
      /\ LET r == get_collection_info(ok, collections, points)
         IN /\ op' = "get_collection_info"
            /\ arg' = [ok |-> ok]
            /\ calls' = r.calls
            /\ req' = <<>>
            /\ resp' = <<>>
            /\ ret' = r.ret
            /\ raised' = r.raised
      /\ UNCHANGED <<collections, indexes, points, nextId, adapter, cleared>>

Next ==
    \/ AddDocuments
    \/ SimilaritySearch
    \/ GetDocumentsBySession
    \/ DeleteBySession
    \/ GetCollectionInfo

Spec == Init /\ [][Next]_vars

SetupNext == Construct

SetupSpec == SetupInit /\ [][SetupNext]_vars

\* ---- properties ----------------------------------------------------------

Range(f) == {f[i] : i \in DOMAIN f}

Count(x, f) == Cardinality({i \in DOMAIN f : f[i] = x})

\* C1: every setup failure other than "already exists" on index creation
\* (listing, creating the collection, creating either payload index) makes
\* the constructor raise, and no instance is obtained.
C1_SetupFailureIsFatal ==
    op = "init" =>
      LET failed ==
            \/ ~arg.listOk
            \/ "create_collection" \in Range(calls) /\ arg.createOut # "ok"
            \/ Count("create_payload_index", calls) >= 1 /\ arg.r1 = "error"
            \/ Count("create_payload_index", calls) >= 2 /\ arg.r2 = "error"
      IN failed => raised /\ ret = FALSE

\* C2: no method other than setup raises, and when its service call fails
\* it returns its empty value: False for add_documents and
\* delete_by_session, an empty list for similarity_search and
\* get_documents_by_session, an empty dict for get_collection_info.
C2_FailSoft ==
    /\ op # "none" => ~raised
    /\ op \in {"add_documents", "delete_by_session"} /\ arg.out # "ok"
         => ret = FALSE
    /\ op \in {"similarity_search", "get_documents_by_session",
               "get_collection_info"} /\ ~arg.ok
         => ret = <<>>

C2_Witness ==
    /\ op = "similarity_search"
    /\ ~arg.ok
    /\ calls = <<"query_points">>
    /\ points # <<>>
    /\ ret = <<>>
    /\ ~raised

\* C3: a setup issues create_collection only when the collection name is
\* absent from the store, an existing collection is left as it is, and a
\* setup that finds the collection and whose two index creations are
\* answered "already exists" does not raise.
C3_SetupIdempotent ==
    [][op' = "init" =>
         /\ "create_collection" \in Range(calls')
              => collection_name \notin DOMAIN collections
         /\ collection_name \in DOMAIN collections
              => collections' = collections
         /\ (/\ collection_name \in DOMAIN collections
             /\ arg'.listOk
             /\ arg'.r1 = "already exists"
             /\ arg'.r2 = "already exists")
              => ~raised']_vars

C3_Witness ==
    /\ op = "init"
    /\ adapter
    /\ arg.r1 = "already exists"
    /\ arg.r2 = "already exists"
    /\ calls = <<"get_collections", "create_payload_index", "create_payload_index">>
    /\ collection_name \in DOMAIN collections
    /\ ~raised

\* The positions of a call's pairs whose embedding is not empty.
NonEmpty(a) == {i \in 1..Len(a.embeddings) : a.embeddings[i] # <<>>}

\* The j-th smallest element of a set of numbers.
Nth(S, j) == CHOOSE x \in S : Cardinality({y \in S : y < x}) = j - 1

\* C4: add_documents with N pairs of which M < N have an empty embedding,
\* whose upsert completes, sends one upsert of N-M points, one per pair with
\* a non-empty embedding in order, with identifiers that differ from each
\* other, from every stored point's and from every identifier generated
\* before; the store holds N-M points more, the others as they were; the
\* call returns True.
C4_AddStoresValidPairs ==
    [][(/\ op' = "add_documents"
        /\ Len(arg'.documents) = Len(arg'.embeddings)
        /\ NonEmpty(arg') # {}
        /\ arg'.out = "ok")
       =>
       LET valid == NonEmpty(arg')
           ids == {req'[j].id : j \in 1..Len(req')}
       IN /\ ret' = TRUE
          /\ calls' = <<"upsert">>
          /\ Len(req') = Cardinality(valid)
          /\ Cardinality(ids) = Len(req')
          /\ ids \cap DOMAIN points = {}
          /\ ids \cap (1..(nextId - 1)) = {}
          /\ DOMAIN points' = DOMAIN points \cup ids
          /\ Cardinality(DOMAIN points')
               = Cardinality(DOMAIN points) + Cardinality(valid)
          /\ \A id \in DOMAIN points : points'[id] = points[id]
          /\ \A j \in 1..Len(req') :
               LET i == Nth(valid, j)
               IN /\ req'[j].vector = arg'.embeddings[i]
                  /\ req'[j].payload.content = arg'.documents[i].page_content
                  /\ points'[req'[j].id].vector = req'[j].vector
                  /\ points'[req'[j].id].payload = req'[j].payload]_vars

C4_Witness ==
    /\ op = "add_documents"
    /\ Len(arg.documents) = 2
    /\ Cardinality(NonEmpty(arg)) = 1
    /\ arg.out = "ok"
    /\ ret = TRUE
    /\ Len(req) = 1
    /\ Cardinality(DOMAIN points) = 2

\* The call has no pair with a non-empty embedding.
NothingToAdd(a) == a.documents = <<>> \/ \A i \in 1..Len(a.embeddings) : a.embeddings[i] = <<>>

\* C5: add_documents with an empty document list, or with embeddings that
\* are all empty, returns False, issues no client call, and leaves the
\* stored points as they were.
C5_NothingToAdd ==
    /\ [](op = "add_documents" /\ NothingToAdd(arg)
            => ret = FALSE /\ calls = <<>>)
    /\ [][op' = "add_documents" /\ NothingToAdd(arg')
            => points' = points]_vars

C5_Witness ==
    /\ op = "add_documents"
    /\ Len(arg.documents) = 2
    /\ NothingToAdd(arg)
    /\ arg.out = "ok"
    /\ ret = FALSE
    /\ calls = <<>>
    /\ points # <<>>

\* C6: every Document similarity_search returns under a non-empty filter is
\* built from a stored point whose payload has, for every key of the
\* filter, exactly the filter's value, and carries those values in its
\* metadata.
C6_FilteredSearch ==
    op = "similarity_search" /\ DOMAIN arg.filter_dict # {} =>
      \A i \in 1..Len(ret) :
        /\ \E id \in DOMAIN points :
             /\ \A key \in DOMAIN arg.filter_dict :
                  points[id].payload[key] = arg.filter_dict[key]
             /\ ret[i].page_content = points[id].payload.content
             /\ ret[i].metadata.session_id = points[id].payload.session_id
             /\ ret[i].metadata.source_type = points[id].payload.source_type
        /\ \A key \in DOMAIN arg.filter_dict :
             ret[i].metadata[key] = arg.filter_dict[key]

\* A point of session s2 is nearer to the query than the s1 point returned.
C6_Witness ==
    /\ op = "similarity_search"
    /\ DOMAIN arg.filter_dict = {"session_id"}
    /\ arg.filter_dict.session_id = "s1"
    /\ arg.query_embedding = <<0, 1>>
    /\ arg.k = 2
    /\ Len(ret) = 1
    /\ ret[1].metadata.session_id = "s1"
    /\ \E id \in DOMAIN points :
         /\ points[id].payload.session_id = "s2"
         /\ Score(arg.query_embedding, points[id].vector) > ret[1].metadata.score

\* C7: a get_documents_by_session(s) after a delete_by_session(s) that
\* returned True, with no add_documents between the two, returns an empty
\* list.
C7_DeleteThenGet ==
    op = "get_documents_by_session" /\ arg.session_id \in cleared
      => ret = <<>>

C7_Witness ==
    /\ op = "get_documents_by_session"
    /\ arg.ok
    /\ arg.session_id \in cleared
    /\ ret = <<>>
    /\ nextId = MaxIds + 1
    /\ Cardinality(DOMAIN points) = MaxIds - 1

\* C8: similarity_search returns one Document per point the service
\* returned, in the service's order, at most k of them, each with the
\* point's content, source_type, source_name, session_id, chunk_id and score.
C8_SearchMapsResponse ==
    op = "similarity_search" =>
      /\ Len(ret) = Len(resp)
      /\ Len(ret) <= arg.k
      /\ \A i \in 1..Len(ret) :
           /\ ret[i].page_content = resp[i].payload.content
           /\ ret[i].metadata.source_type = resp[i].payload.source_type
           /\ ret[i].metadata.source_name = resp[i].payload.source_name
           /\ ret[i].metadata.session_id = resp[i].payload.session_id
           /\ ret[i].metadata.chunk_id = resp[i].payload.chunk_id
           /\ ret[i].metadata.score = resp[i].score

C8_Witness ==
    /\ op = "similarity_search"
    /\ Len(resp) = 2
    /\ Len(ret) = 2
    /\ ret[1].metadata.score > ret[2].metadata.score
    /\ ret[1].metadata.session_id # ret[2].metadata.session_id

\* C9: similarity_search with an empty query embedding returns an empty
\* list and issues no client call, whatever k and the filter are.
C9_EmptyQuery ==
    op = "similarity_search" /\ arg.query_embedding = <<>>
      => ret = <<>> /\ calls = <<>>

C9_Witness ==
    /\ op = "similarity_search"
    /\ arg.query_embedding = <<>>
    /\ arg.ok
    /\ DOMAIN arg.filter_dict = {"session_id"}
    /\ points # <<>>
    /\ ret = <<>>
    /\ calls = <<>>

\* C10: delete_by_session(s) removes no point whose session_id differs from
\* s and adds none, whether it returns True or False.
C10_DeleteOnlySession ==
    [][op' = "delete_by_session" =>
         /\ DOMAIN points' \subseteq DOMAIN points
         /\ \A id \in DOMAIN points :
              points[id].payload.session_id # arg'.session_id
                => id \in DOMAIN points' /\ points'[id] = points[id]]_vars

C10_Witness ==
    /\ op = "delete_by_session"
    /\ ret = TRUE
    /\ nextId = MaxIds + 1
    /\ Cardinality(DOMAIN points) = MaxIds - 1
    /\ \A id \in DOMAIN points : points[id].payload.session_id # arg.session_id

====
